---- MODULE Spec2Model ----
(***************************************************************************)
(* Model of generate_app_icon.py: the gradient generator create_gradient   *)
(* (a pure function of width, height and two colours) and the script run   *)
(* (module import, create_app_icon, the two handlers of __main__).         *)
(*                                                                         *)
(* Images are records [mode, width, height, data] with data the row-major  *)
(* pixel sequence, as Pillow's getdata/putdata see them.  Image.paste with *)
(* an 'L' mask is Pillow's paste_mask_L: per channel                       *)
(* DIV255(out * (255 - mask) + in * mask).                                 *)
(***************************************************************************)
EXTENDS Integers, Sequences, FiniteSets, TLC

(***************************************************************************)
(* Bounds of the gradient specification.                                   *)
(***************************************************************************)
MaxHeight == 64
MaxWidth == 2

(***************************************************************************)
(* Bound of the run specification: how many times the script is run.       *)
(***************************************************************************)
MaxRuns == 2

(***************************************************************************)
(* Program constants of create_app_icon.                                   *)
(***************************************************************************)
size == 1024
color1 == <<0, 122, 255>>
color2 == <<88, 86, 214>>

(***************************************************************************)
(* Inputs of the gradient specification: every height up to MaxHeight, the *)
(* heights around 255 (where the mask of the last row reaches 254) and the *)
(* height the script uses; the script's two colours and colours that put   *)
(* the extreme channel distances (0 -> 255, 255 -> 0), equal channels and   *)
(* adjacent channels on some channel of some pair.                         *)
(***************************************************************************)
Heights == (1..MaxHeight) \cup {254, 255, 256, size}
Widths == 1..MaxWidth
Colours == { color1, color2, <<0, 0, 0>>, <<255, 255, 255>>,
             <<0, 255, 128>>, <<255, 0, 127>> }

VARIABLES
    gpc,        \* gradient specification: "call" before, "return" after
    gwidth,     \* create_gradient's width argument
    gheight,    \* create_gradient's height argument
    gcolor1,    \* create_gradient's color1 argument
    gcolor2,    \* create_gradient's color2 argument
    gresult,    \* the image create_gradient returned (<<>> before the call)
    pc,         \* the statement the interpreter executes next
    run,        \* which run of the script this is (1, 2, ...)
    pilInstalled, \* environment: "from PIL import ..." can be resolved
    dirExists,  \* environment: the directory of output_path exists
    fault,      \* environment: the library call that raises, and what
    exc,        \* the exception being propagated ("none" when none is)
    stdout,     \* what print has written in this run
    stderr,     \* what the interpreter and traceback have written in this run
    img,        \* the canvas: the gradient it was made from, the draw calls
    file,       \* the content of output_path
    file0,      \* the content of output_path when this run started
    exit,       \* "running", or how the process ended
    trace,      \* the statements attempted in this run, in order
    prev        \* what each earlier run left: its outputs

gvars == <<gpc, gwidth, gheight, gcolor1, gcolor2, gresult>>
rvars == <<pc, run, pilInstalled, dirExists, fault, exc, stdout, stderr, img,
           file, file0, exit, trace, prev>>
vars == <<gvars, rvars>>

----------------------------------------------------------------------------
(***************************************************************************)
(* Pillow images.                                                          *)
(***************************************************************************)

\* Image.new(mode, (width, height), color)
ImageNew(mode, width, height, color) ==
    [mode |-> mode, width |-> width, height |-> height,
     data |-> [i \in 1..(width * height) |-> color]]

\* im.getpixel((x, y))
Pixel(im, x, y) == im.data[y * im.width + x + 1]

\* im.putdata(data): the sequence is copied in row-major order from the
\* first pixel; pixels past the end of the sequence keep their value.
putdata(im, data) ==
    [im EXCEPT !.data = [i \in 1..(im.width * im.height) |->
                            IF i <= Len(data) THEN data[i] ELSE @[i]]]

\* (a + 128 + ((a + 128) >> 8)) >> 8: a / 255 rounded to nearest.
DIV255(a) ==
    LET tmp == a + 128
    IN  ((tmp \div 256) + tmp) \div 256

\* BLEND8(mask, in1, in2)
BLEND8(mask, in1, in2) == DIV255(in1 * (255 - mask) + in2 * mask)

\* The operands of the blend exchanged.
paste_swapped(base, top, mask) ==
    [base EXCEPT !.data = [i \in 1..(base.width * base.height) |->
        [c \in 1..3 |-> BLEND8(mask.data[i], top.data[i][c], @[i][c])]]]

\* base.paste(top, (0, 0), mask) for images of one size, mask of mode 'L'
paste(base, top, mask) ==
    [base EXCEPT !.data = [i \in 1..(base.width * base.height) |->
        [c \in 1..3 |-> BLEND8(mask.data[i], @[i][c], top.data[i][c])]]]

----------------------------------------------------------------------------
(***************************************************************************)
(* create_gradient.                                                        *)
(***************************************************************************)

\* The mask value left unscaled: the row index itself, as a byte.
MaskValueUnscaled(y, height) == y % 256

\* int(255 * (y / height)).  y / height is a double; the truncated product
\* equals the exact floor of 255 * y / height for every 0 <= y < height
\* with height <= 1200 (compared exhaustively against the float expression).
MaskValue(y, height) == (255 * y) \div height

\* One append per row instead of width of them.
MaskRowOnce(y, width, height) == <<MaskValue(y, height)>>

\* [int(255 * (y / height))] * width
MaskRow(y, width, height) == [i \in 1..width |-> MaskValue(y, height)]

\* for y in range(lo, hi): mask_data.extend(MaskRow(y, ...)): the rows of
\* lo..hi-1 concatenated in row order (split in halves, which keeps the
\* evaluation depth logarithmic in the number of rows).
RECURSIVE MaskData(_, _, _, _)
MaskData(lo, hi, width, height) ==
    IF hi <= lo
    THEN <<>>
    ELSE IF hi = lo + 1
    THEN MaskRow(lo, width, height)
    ELSE LET mid == (lo + hi) \div 2
         IN  MaskData(lo, mid, width, height) \o MaskData(mid, hi, width, height)

create_gradient(width, height, c1, c2) ==
    LET base == ImageNew("RGB", width, height, c1)
        top  == ImageNew("RGB", width, height, c2)
        mask == putdata(ImageNew("L", width, height, 0),
                        MaskData(0, height, width, height))
    IN  paste(base, top, mask)

----------------------------------------------------------------------------
(***************************************************************************)
(* create_app_icon: geometry and draw calls.                               *)
(***************************************************************************)
center == size \div 2

\* The radius taken as half the canvas instead of a third.
circle_radius_half == size \div 2

circle_radius == size \div 3
inner_radius == circle_radius \div 2
corner_size == 60
corner_width == 15

\* The margin subtracted from the lens radius instead of added.
corner_offset_inward == circle_radius - 80

corner_offset == circle_radius + 80

white == <<255, 255, 255>>

\* draw.ellipse([x0, y0, x1, y1], fill=, outline=, width=); None is <<>>
Ellipse(x0, y0, x1, y1, fill, outline, width) ==
    [op |-> "ellipse", xy |-> <<x0, y0, x1, y1>>, fill |-> fill,
     outline |-> outline, width |-> width]

\* draw.line([(x0, y0), (x1, y1)], fill=, width=)
Line(x0, y0, x1, y1, fill, width) ==
    [op |-> "line", xy |-> <<x0, y0, x1, y1>>, fill |-> fill,
     outline |-> <<>>, width |-> width]

\* Outer circle (camera lens); width is draw.ellipse's default, 1
outer_ellipse ==
    Ellipse(center - circle_radius, center - circle_radius,
            center + circle_radius, center + circle_radius,
            <<255, 255, 255, 230>>, <<240, 240, 240>>, 1)

\* Inner circle (camera aperture)
inner_ellipse ==
    Ellipse(center - inner_radius, center - inner_radius,
            center + inner_radius, center + inner_radius,
            <<>>, <<0, 122, 255>>, 20)

top_left ==
    << Line(center - corner_offset, center - corner_offset,
            center - corner_offset + corner_size, center - corner_offset,
            white, corner_width),
       Line(center - corner_offset, center - corner_offset,
            center - corner_offset, center - corner_offset + corner_size,
            white, corner_width) >>

\* The top-left corner's "+ corner_size" kept in the horizontal segment.
top_right_copied ==
    << Line(center + corner_offset, center - corner_offset,
            center + corner_offset + corner_size, center - corner_offset,
            white, corner_width),
       Line(center + corner_offset, center - corner_offset,
            center + corner_offset, center - corner_offset + corner_size,
            white, corner_width) >>

top_right ==
    << Line(center + corner_offset, center - corner_offset,
            center + corner_offset - corner_size, center - corner_offset,
            white, corner_width),
       Line(center + corner_offset, center - corner_offset,
            center + corner_offset, center - corner_offset + corner_size,
            white, corner_width) >>

bottom_left ==
    << Line(center - corner_offset, center + corner_offset,
            center - corner_offset + corner_size, center + corner_offset,
            white, corner_width),
       Line(center - corner_offset, center + corner_offset,
            center - corner_offset, center + corner_offset - corner_size,
            white, corner_width) >>

bottom_right ==
    << Line(center + corner_offset, center + corner_offset,
            center + corner_offset - corner_size, center + corner_offset,
            white, corner_width),
       Line(center + corner_offset, center + corner_offset,
            center + corner_offset, center + corner_offset - corner_size,
            white, corner_width) >>

\* The eight draw.line calls in program order.
corner_lines == top_left \o top_right \o bottom_left \o bottom_right

LinePcs == <<"line1", "line2", "line3", "line4",
             "line5", "line6", "line7", "line8">>

\* The statements of create_app_icon in program order.
Program == <<"gradient", "outer", "inner">> \o LinePcs \o <<"save", "report">>

----------------------------------------------------------------------------
(***************************************************************************)
(* The canvas, the output file, exceptions.                                *)
(***************************************************************************)
NoImage == [grad |-> <<>>, ops |-> <<>>]

\* The canvas create_gradient(size, size, color1, color2) returns, before
\* any draw call: named by its arguments, its pixels being create_gradient's.
GradientCanvas == [grad |-> <<size, size, color1, color2>>, ops |-> <<>>]

\* ImageDraw draws in place on img.
Draw(image, shape) == [image EXCEPT !.ops = Append(@, shape)]

\* PNG encoding of a canvas: the format, the mode, the size, the pixels.
\* Pillow's PNG writer stores nothing else (no time, no file name).
PNG(image) ==
    [format |-> "PNG", mode |-> "RGB",
     size |-> IF image.grad = <<>> THEN <<0, 0>>
              ELSE <<image.grad[1], image.grad[2]>>,
     pixels |-> image]

\* output_path: whether it exists, and the images stored in it in order.
NoFile == [exists |-> FALSE, data |-> <<>>]

\* An icon written by something else before the first run.
StaleFile ==
    [exists |-> TRUE,
     data |-> <<PNG([grad |-> <<1, 1, white, white>>, ops |-> <<>>])>>]

\* The file opened for appending instead of writing.
SaveAppend(old, image) ==
    [exists |-> TRUE, data |-> Append(old.data, PNG(image))]

\* img.save(output_path, 'PNG', quality=100): the file is opened for
\* writing (created or truncated) and the canvas encoded into it.
Save(old, image) == [exists |-> TRUE, data |-> <<PNG(image)>>]

ImportErrors == {"ImportError", "ModuleNotFoundError"}

\* Only ImportError handled.
HandlerImportOnly(e) ==
    IF e \in ImportErrors THEN "except_import" ELSE "uncaught"

\* The except clauses of __main__, tried in order.
Handler(e) ==
    IF e \in ImportErrors THEN "except_import" ELSE "except_generic"

\* The handler run again from the top of the try.
AfterHandlerRetry == "gradient"

\* After either handler the script falls off its end.
AfterHandler == "exit"

\* The library calls of create_app_icon before the save.
FaultSteps == {"gradient", "outer", "inner"} \cup {LinePcs[k] : k \in 1..8}

\* At most one of those calls raises in a run: an ImportError (Pillow
\* reports a C module or plugin it could not load when it is first used)
\* or another Exception (MemoryError for one).  create_app_icon catches
\* nothing itself.
NoFault == [step |-> "none", kind |-> "none"]
Faults == {NoFault} \cup [step : FaultSteps, kind : {"ImportError", "MemoryError"}]

Raises(step) == fault.step = step

MsgGradient == "Creating gradient background..."
MsgLens == "Drawing camera lens circle..."
MsgCorners == "Adding camera viewfinder corners..."
MsgSaving == "Saving icon to FaceRecognitionClient/Assets.xcassets/AppIcon.appiconset/AppIcon.png..."
MsgSuccess == "App icon created successfully!"
MsgMissing == "Error: PIL (Pillow) not installed"
MsgError == "Error creating icon: "

----------------------------------------------------------------------------
(***************************************************************************)
(* The script run.                                                         *)
(***************************************************************************)
GradIdle ==
    /\ gpc = "idle"
    /\ gwidth = 0
    /\ gheight = 0
    /\ gcolor1 = <<>>
    /\ gcolor2 = <<>>
    /\ gresult = <<>>

Init ==
    /\ GradIdle
    /\ pc = "import"
    /\ run = 1
    /\ pilInstalled \in BOOLEAN
    /\ dirExists \in BOOLEAN
    /\ fault \in Faults
    /\ exc = "none"
    /\ stdout = <<>>
    /\ stderr = <<>>
    /\ img = NoImage
    /\ file \in (IF dirExists THEN {NoFile, StaleFile} ELSE {NoFile})
    /\ file0 = file
    /\ exit = "running"
    /\ trace = <<>>
    /\ prev = <<>>

\* A statement of create_app_icon raises e: control leaves the function
\* for the except clauses of __main__.
Raise(step, e) ==
    /\ exc' = e
    /\ pc' = Handler(e)

\* from PIL import Image, ImageDraw, ImageFont; import os  (module level)
Import ==
    /\ pc = "import"
    /\ IF pilInstalled
       THEN /\ pc' = "main"
            /\ exc' = exc
       ELSE /\ pc' = "uncaught"
            /\ exc' = "ModuleNotFoundError"
    /\ UNCHANGED <<run, pilInstalled, dirExists, fault, stdout, stderr, img,
                   file, file0, exit, trace, prev, gvars>>

\* if __name__ == "__main__": try: create_app_icon()
Main ==
    /\ pc = "main"
    /\ pc' = "gradient"
    /\ UNCHANGED <<run, pilInstalled, dirExists, fault, exc, stdout, stderr,
                   img, file, file0, exit, trace, prev, gvars>>

\* print(...); img = create_gradient(size, size, color1, color2);
\* draw = ImageDraw.Draw(img)
Gradient ==
    /\ pc = "gradient"
    /\ stdout' = Append(stdout, MsgGradient)
    /\ trace' = Append(trace, "gradient")
    /\ IF Raises("gradient")
       THEN /\ Raise("gradient", fault.kind)
            /\ img' = img
       ELSE /\ img' = GradientCanvas
            /\ pc' = "outer"
            /\ exc' = exc
    /\ UNCHANGED <<run, pilInstalled, dirExists, fault, stderr, file, file0,
                   exit, prev, gvars>>

\* print(...); draw.ellipse(outer)
OuterEllipse ==
    /\ pc = "outer"
    /\ stdout' = Append(stdout, MsgLens)
    /\ trace' = Append(trace, "outer")
    /\ IF Raises("outer")
       THEN /\ Raise("outer", fault.kind)
            /\ img' = img
       ELSE /\ img' = Draw(img, outer_ellipse)
            /\ pc' = "inner"
            /\ exc' = exc
    /\ UNCHANGED <<run, pilInstalled, dirExists, fault, stderr, file, file0,
                   exit, prev, gvars>>

\* draw.ellipse(inner)
InnerEllipse ==
    /\ pc = "inner"
    /\ trace' = Append(trace, "inner")
    /\ IF Raises("inner")
       THEN /\ Raise("inner", fault.kind)
            /\ img' = img
       ELSE /\ img' = Draw(img, inner_ellipse)
            /\ pc' = "line1"
            /\ exc' = exc
    /\ UNCHANGED <<run, pilInstalled, dirExists, fault, stdout, stderr, file,
                   file0, exit, prev, gvars>>

\* The k-th draw.line call; the first is preceded by a print.
CornerLine ==
    \E k \in 1..8 :
        /\ pc = LinePcs[k]
        /\ stdout' = IF k = 1 THEN Append(stdout, MsgCorners) ELSE stdout
        /\ trace' = Append(trace, LinePcs[k])
        /\ IF Raises(LinePcs[k])
           THEN /\ Raise(LinePcs[k], fault.kind)
                /\ img' = img
           ELSE /\ img' = Draw(img, corner_lines[k])
                /\ pc' = IF k < 8 THEN LinePcs[k + 1] ELSE "save"
                /\ exc' = exc
        /\ UNCHANGED <<run, pilInstalled, dirExists, fault, stderr, file,
                       file0, exit, prev, gvars>>

\* print(...); img.save(output_path, 'PNG', quality=100): open() raises
\* FileNotFoundError when the directory is missing, and creates nothing.
SaveIcon ==
    /\ pc = "save"
    /\ stdout' = Append(stdout, MsgSaving)
    /\ trace' = Append(trace, "save")
    /\ IF dirExists
       THEN /\ file' = Save(file, img)
            /\ pc' = "report"
            /\ exc' = exc
       ELSE /\ Raise("save", "FileNotFoundError")
            /\ file' = file
    /\ UNCHANGED <<run, pilInstalled, dirExists, fault, stderr, img, file0,
                   exit, prev, gvars>>

\* The prints after the save; create_app_icon returns, the try ends, the
\* script falls off its end.
Report ==
    /\ pc = "report"
    /\ stdout' = stdout \o <<MsgSuccess, "Size: 1024x1024", "Location",
                             "Next steps:", "1.", "2.", "3.">>
    /\ trace' = Append(trace, "report")
    /\ pc' = "exit"
    /\ exit' = "normal"
    /\ UNCHANGED <<run, pilInstalled, dirExists, fault, exc, stderr, img,
                   file, file0, prev, gvars>>

\* except ImportError as e: five prints
ExceptImportError ==
    /\ pc = "except_import"
    /\ stdout' = stdout \o <<MsgMissing, "To install, run:",
                             "pip3 install Pillow", "Or if using conda:",
                             "conda install pillow">>
    /\ trace' = Append(trace, "except_import")
    /\ pc' = AfterHandler
    /\ exit' = IF AfterHandler = "exit" THEN "normal" ELSE exit
    /\ UNCHANGED <<run, pilInstalled, dirExists, fault, exc, stderr, img,
                   file, file0, prev, gvars>>

\* except Exception as e: print, traceback.print_exc()
ExceptException ==
    /\ pc = "except_generic"
    /\ stdout' = Append(stdout, MsgError \o exc)
    /\ stderr' = Append(stderr, "Traceback (handled): " \o exc)
    /\ trace' = Append(trace, "except_generic")
    /\ pc' = AfterHandler
    /\ exit' = IF AfterHandler = "exit" THEN "normal" ELSE exit
    /\ UNCHANGED <<run, pilInstalled, dirExists, fault, exc, img, file,
                   file0, prev, gvars>>

\* No except clause applies: the interpreter prints the traceback and the
\* process ends with status 1.
Uncaught ==
    /\ pc = "uncaught"
    /\ stderr' = Append(stderr, "Traceback (unhandled): " \o exc)
    /\ pc' = "exit"
    /\ exit' = "uncaught"
    /\ UNCHANGED <<run, pilInstalled, dirExists, fault, exc, stdout, img,
                   file, file0, trace, prev, gvars>>

\* What a run leaves behind.
Outputs ==
    [stdout |-> stdout, stderr |-> stderr, img |-> img, file |-> file,
     exit |-> exit, trace |-> trace]

\* The script is run again in the same environment: a new process, the
\* file system as the last run left it.
Rerun ==
    /\ pc = "exit"
    /\ run < MaxRuns
    /\ prev' = Append(prev, Outputs)
    /\ run' = run + 1
    /\ pc' = "import"
    /\ exc' = "none"
    /\ stdout' = <<>>
    /\ stderr' = <<>>
    /\ img' = NoImage
    /\ file0' = file
    /\ exit' = "running"
    /\ trace' = <<>>
    /\ UNCHANGED <<pilInstalled, dirExists, fault, file, gvars>>

Next ==
    \/ Import
    \/ Main
    \/ Gradient
    \/ OuterEllipse
    \/ InnerEllipse
    \/ CornerLine
    \/ SaveIcon
    \/ Report
    \/ ExceptImportError
    \/ ExceptException
    \/ Uncaught
    \/ Rerun

Spec == Init /\ [][Next]_vars

----------------------------------------------------------------------------
(***************************************************************************)
(* The gradient specification: the arguments are drawn in GradInit, the    *)
(* one action calls the function; no script runs.                          *)
(***************************************************************************)
RunIdle ==
    /\ pc = "idle"
    /\ run = 0
    /\ pilInstalled = TRUE
    /\ dirExists = TRUE
    /\ fault = NoFault
    /\ exc = "none"
    /\ stdout = <<>>
    /\ stderr = <<>>
    /\ img = NoImage
    /\ file = NoFile
    /\ file0 = NoFile
    /\ exit = "running"
    /\ trace = <<>>
    /\ prev = <<>>

GradInit ==
    /\ RunIdle
    /\ gpc = "call"
    /\ gwidth \in Widths
    /\ gheight \in Heights
    /\ gcolor1 \in Colours
    /\ gcolor2 \in Colours
    /\ gresult = <<>>

CallCreateGradient ==
    /\ gpc = "call"
    /\ gresult' = create_gradient(gwidth, gheight, gcolor1, gcolor2)
    /\ gpc' = "return"
    /\ UNCHANGED <<gwidth, gheight, gcolor1, gcolor2, rvars>>

GradNext == CallCreateGradient

GradSpec == GradInit /\ [][GradNext]_vars

----------------------------------------------------------------------------
(***************************************************************************)
(* Properties of create_gradient (checked under GradSpec).                 *)
(***************************************************************************)
Range(seq) == {seq[i] : i \in DOMAIN seq}

Abs(n) == IF n < 0 THEN -n ELSE n

\* n / d rounded to the nearest integer (halves up), d > 0
RoundDiv(n, d) == (2 * n + d) \div (2 * d)

Returned == gpc = "return"
Rows == 0..(gheight - 1)
Cols == 0..(gwidth - 1)
Channels == 1..3

\* start + (y / height) * (end - start), rounded to the nearest integer
Direct(y, c) ==
    RoundDiv(gcolor1[c] * gheight + y * (gcolor2[c] - gcolor1[c]), gheight)

\* (start * (255 - m) + end * m) / 255 rounded to the nearest integer, for
\* the 8-bit factor m = floor(255 * y / height)
Quantised(y, c) ==
    LET m == (255 * y) \div gheight
    IN  RoundDiv(gcolor1[c] * (255 - m) + gcolor2[c] * m, 255)

\* C1 as stated: every channel of every pixel of row y equals
\* start + (y / height) * (end - start) rounded to the nearest integer.
C1_DirectInterpolation ==
    Returned =>
        \A y \in Rows, x \in Cols, c \in Channels :
            Pixel(gresult, x, y)[c] = Direct(y, c)

\* C1 amended: every channel of every pixel of row y is in 0..255, equals
\* the blend of start and end by the 8-bit factor floor(255 * y / height)
\* over 255, rounded to the nearest integer, and differs from the direct
\* interpolation start + (y / height) * (end - start), rounded, by at most 1.
C1_QuantisedInterpolation ==
    Returned =>
        \A y \in Rows, x \in Cols, c \in Channels :
            /\ Pixel(gresult, x, y)[c] \in 0..255
            /\ Pixel(gresult, x, y)[c] = Quantised(y, c)
            /\ Abs(Pixel(gresult, x, y)[c] - Direct(y, c)) <= 1

\* The script's own call (height 1024, its two colours) has a row whose
\* value is not the direct interpolation.
C1_Witness ==
    /\ Returned
    /\ gheight = size
    /\ gcolor1 = color1
    /\ gcolor2 = color2
    /\ \E y \in Rows, c \in Channels :
           Abs(Pixel(gresult, 0, y)[c] - Direct(y, c)) = 1

\* C2 as stated: for every height, row 0 is the start colour and row
\* height-1 is the end colour within 1 per channel.
C2_EndpointsEveryHeight ==
    Returned =>
        \A x \in Cols :
            /\ Pixel(gresult, x, 0) = gcolor1
            /\ \A c \in Channels :
                   Abs(Pixel(gresult, x, gheight - 1)[c] - gcolor2[c]) <= 1

\* C2 amended: for every height >= 1, row 0 is exactly the start colour (so
\* the single row of a canvas of height 1 is the start colour); for every
\* height >= 255, row height-1 is the end colour within 1 per channel.
C2_Endpoints ==
    Returned =>
        \A x \in Cols :
            /\ Pixel(gresult, x, 0) = gcolor1
            /\ gheight >= 255 =>
                   \A c \in Channels :
                       Abs(Pixel(gresult, x, gheight - 1)[c] - gcolor2[c]) <= 1

\* A canvas of the script's height whose last row is off the end colour by
\* exactly 1 on some channel, its first row being the start colour.
C2_Witness ==
    /\ Returned
    /\ gheight = size
    /\ gcolor1 # gcolor2
    /\ Pixel(gresult, 0, 0) = gcolor1
    /\ \E c \in Channels :
           Abs(Pixel(gresult, 0, gheight - 1)[c] - gcolor2[c]) = 1

\* C3: per channel the values of consecutive rows never decrease when
\* start <= end and never increase when start >= end, and all pixels of one
\* row have the same colour.
C3_MonotonicRows ==
    Returned =>
        /\ \A y \in Rows, x \in Cols : Pixel(gresult, x, y) = Pixel(gresult, 0, y)
        /\ \A y \in Rows, x \in Cols, c \in Channels :
               y + 1 < gheight =>
                   /\ gcolor1[c] <= gcolor2[c] =>
                          Pixel(gresult, x, y + 1)[c] >= Pixel(gresult, x, y)[c]
                   /\ gcolor1[c] >= gcolor2[c] =>
                          Pixel(gresult, x, y + 1)[c] <= Pixel(gresult, x, y)[c]

\* A canvas at least two pixels wide with a channel that rises and a
\* channel that falls, strictly, between two consecutive rows.
C3_Witness ==
    /\ Returned
    /\ gwidth >= 2
    /\ \E y \in Rows, c, d \in Channels :
           /\ y + 1 < gheight
           /\ Pixel(gresult, 1, y + 1)[c] > Pixel(gresult, 1, y)[c]
           /\ Pixel(gresult, 1, y + 1)[d] < Pixel(gresult, 1, y)[d]

----------------------------------------------------------------------------
(***************************************************************************)
(* Properties of the script run (checked under Spec).                      *)
(***************************************************************************)
Ended == pc = "exit"
Printed(msg) == msg \in Range(stdout)
Attempted(step) == step \in Range(trace)
Handlers == {"except_import", "except_generic"}

\* C4 as stated: with the drawing library not installed the run ends
\* normally, through the ImportError handler: the install message is
\* printed, the generic message is not, and no traceback of an unhandled
\* exception is written.
C4_MissingDependencyHandled ==
    (~pilInstalled /\ Ended) =>
        /\ exit = "normal"
        /\ Printed(MsgMissing)
        /\ ~Printed(MsgError \o exc)
        /\ Attempted("except_import")

\* C5: when the output directory does not exist the success message is
\* never printed, and a run that reached the save ends normally through
\* the generic handler: the error message with the exception is printed,
\* the install message is not, nothing is left unhandled, no file is made.
C5_SaveFailureHandled ==
    ~dirExists =>
        /\ ~Printed(MsgSuccess)
        /\ Attempted("save") =>
               /\ exc = "FileNotFoundError"
               /\ pc \in {"except_generic", "exit"}
               /\ file = NoFile
               /\ Ended =>
                      /\ exit = "normal"
                      /\ Printed(MsgError \o "FileNotFoundError")
                      /\ ~Printed(MsgMissing)
                      /\ trace[Len(trace)] = "except_generic"
                      /\ stderr = <<"Traceback (handled): FileNotFoundError">>

\* A run that drew everything, failed in the save and ended.
C5_Witness ==
    /\ ~dirExists
    /\ Ended
    /\ Attempted("save")
    /\ Len(img.ops) = 10

\* The segment with x mapped to size - x (fx) and y to size - y (fy).
Reflect(seg, fx, fy) ==
    [seg EXCEPT !.xy = << IF fx THEN size - @[1] ELSE @[1],
                          IF fy THEN size - @[2] ELSE @[2],
                          IF fx THEN size - @[3] ELSE @[3],
                          IF fy THEN size - @[4] ELSE @[4] >>]

\* The two segments of bracket b (1 top-left, 2 top-right, 3 bottom-left,
\* 4 bottom-right) as drawn on the canvas: draw calls 3..10.
Bracket(b) == <<img.ops[2 * b + 1], img.ops[2 * b + 2]>>

AllDrawn == Len(img.ops) = 10

\* C6: once the eight segments are drawn, mapping x to size - x takes each
\* segment of the top-left bracket to the segment of the top-right bracket,
\* y to size - y to that of the bottom-left bracket, both to that of the
\* bottom-right bracket, endpoint by endpoint, and all eight segments are
\* lines of one stroke width and one colour.
C6_CornersReflect ==
    AllDrawn =>
        /\ \A i \in 1..2 :
               /\ Reflect(Bracket(1)[i], TRUE, FALSE) = Bracket(2)[i]
               /\ Reflect(Bracket(1)[i], FALSE, TRUE) = Bracket(3)[i]
               /\ Reflect(Bracket(1)[i], TRUE, TRUE) = Bracket(4)[i]
        /\ \A k \in 3..10 :
               /\ img.ops[k].op = "line"
               /\ img.ops[k].width = img.ops[3].width
               /\ img.ops[k].fill = img.ops[3].fill

\* All eight segments drawn, the save not yet attempted.
C6_Witness == AllDrawn /\ pc = "save"

Stroke(seg) ==
    LET half == (seg.width + 1) \div 2
        xlo == (IF seg.xy[1] <= seg.xy[3] THEN seg.xy[1] ELSE seg.xy[3]) - half
        xhi == (IF seg.xy[1] <= seg.xy[3] THEN seg.xy[3] ELSE seg.xy[1]) + half
        ylo == (IF seg.xy[2] <= seg.xy[4] THEN seg.xy[2] ELSE seg.xy[4]) - half
        yhi == (IF seg.xy[2] <= seg.xy[4] THEN seg.xy[4] ELSE seg.xy[2]) + half
    IN  (xlo..xhi) \X (ylo..yhi)

\* The point is outside the disc of radius r around the canvas centre.
OutsideDisc(p, r) ==
    (p[1] - size \div 2) * (p[1] - size \div 2)
        + (p[2] - size \div 2) * (p[2] - size \div 2) > r * r

\* The corner of bracket b: left or right, above or below the centre.
SignX(b) == IF b \in {1, 3} THEN -1 ELSE 1
SignY(b) == IF b \in {1, 2} THEN -1 ELSE 1

\* C8: each bracket is two white lines of stroke width 15 that start at the
\* same vertex (centre +/- (size \div 3 + 80), centre +/- (size \div 3 + 80)),
\* the first horizontal and the second vertical, both 60 long, and every
\* point of both strokes is outside the disc of radius size \div 3.
C8_Brackets ==
    AllDrawn =>
        \A b \in 1..4 :
            LET h == Bracket(b)[1]
                v == Bracket(b)[2]
                vx == size \div 2 + SignX(b) * (size \div 3 + 80)
                vy == size \div 2 + SignY(b) * (size \div 3 + 80)
            IN  /\ h.op = "line" /\ v.op = "line"
                /\ h.fill = <<255, 255, 255>> /\ v.fill = <<255, 255, 255>>
                /\ h.width = 15 /\ v.width = 15
                /\ <<h.xy[1], h.xy[2]>> = <<vx, vy>>
                /\ <<v.xy[1], v.xy[2]>> = <<vx, vy>>
                /\ h.xy[4] = h.xy[2] /\ Abs(h.xy[3] - h.xy[1]) = 60
                /\ v.xy[3] = v.xy[1] /\ Abs(v.xy[4] - v.xy[2]) = 60
                /\ \A p \in Stroke(h) \cup Stroke(v) : OutsideDisc(p, size \div 3)

\* All eight segments drawn and the file written.
C8_Witness == AllDrawn /\ pc = "report"

\* C9: every coordinate of every draw call made so far is within
\* 0..size-1: the corners of the bounding box of an ellipse, and the
\* endpoints of a line widened by half its stroke width (doubled
\* coordinates, so that half an odd width is exact).
C9_InsideCanvas ==
    \A k \in 1..Len(img.ops) :
        LET d == img.ops[k]
        IN  \A j \in 1..4 :
                IF d.op = "line"
                THEN /\ 2 * d.xy[j] - d.width >= 0
                     /\ 2 * d.xy[j] + d.width <= 2 * (size - 1)
                ELSE d.xy[j] \in 0..(size - 1)

\* A run that made all ten draw calls on the 1024 x 1024 canvas and ended
\* normally.
C9_Witness ==
    /\ AllDrawn
    /\ img.grad = <<1024, 1024, color1, color2>>
    /\ Ended
    /\ exit = "normal"
    /\ exc = "none"

\* The statements of trace before the handler, if one ran.
Body ==
    IF trace # <<>> /\ trace[Len(trace)] \in Handlers
    THEN SubSeq(trace, 1, Len(trace) - 1)
    ELSE trace

\* The draw calls in the order gradient, outer disc, inner ring, brackets.
DrawOrder == <<outer_ellipse, inner_ellipse>> \o corner_lines

\* C10: the statements attempted so far are an initial part of gradient,
\* outer disc, inner ring, the eight bracket lines, save, report, followed
\* by at most one handler and only after a failure; the draw calls made are
\* the matching initial part of the drawing; the save is attempted only
\* with all ten draw calls made; the success message is printed only with
\* the file holding the canvas and no failure; after a failure the file is
\* what it was when the run started, the last statement attempted is the
\* one that failed, and the success message is not printed.
C10_FixedOrder ==
    /\ Len(Body) <= Len(Program)
    /\ Body = SubSeq(Program, 1, Len(Body))
    /\ Body # trace => exc # "none"
    /\ Len(img.ops) <= Len(DrawOrder)
    /\ img.ops = SubSeq(DrawOrder, 1, Len(img.ops))
    /\ Attempted("save") => (AllDrawn /\ img.grad # <<>>)
    /\ Printed(MsgSuccess) =>
           /\ Attempted("save")
           /\ exc = "none"
           /\ file = [exists |-> TRUE, data |-> <<PNG(img)>>]
    /\ exc # "none" =>
           /\ file = file0
           /\ ~Printed(MsgSuccess)
           /\ ~Attempted("report")
           /\ pc \in Handlers \cup {"uncaught", "exit"}
           /\ Len(img.ops) = (IF Len(Body) >= 2 THEN Len(Body) - 2 ELSE 0)
    /\ exc = "none" =>
           Len(img.ops) = (IF Len(Body) >= 11 THEN 10
                           ELSE IF Len(Body) >= 1 THEN Len(Body) - 1 ELSE 0)

\* A run that failed in the third bracket line and ended: four draw calls
\* made, no save attempted.
C10_Witness ==
    /\ Ended
    /\ exc # "none"
    /\ Len(img.ops) = 4
    /\ ~Attempted("save")
    /\ trace[Len(trace)] \in Handlers

====
